---- MODULE Spec2Model ----
(***************************************************************************)
(* Model of src/bot.py: the Bybit execution listener.                      *)
(*                                                                         *)
(*  - BybitRest: the two timestamped caches (_order_cache,                 *)
(*    _position_cache) with their get/put helpers, get_order_details and   *)
(*    get_position_details;                                                *)
(*  - the websocket handler on_execution_message with the global           *)
(*    execid_seen set and trim_exec_cache.                                 *)
(*                                                                         *)
(* A Python dict is modelled as the sequence of its entries in insertion   *)
(* order (dicts keep insertion order; overwriting a key keeps its place),  *)
(* because sorted() is stable and so the order decides ties.               *)
(***************************************************************************)
EXTENDS Integers, Sequences, FiniteSets, TLC

VARIABLES
    now,             \* the reading of time.time()
    order_cache,     \* BybitRest._order_cache
    position_cache,  \* BybitRest._position_cache
    op,              \* the last BybitRest call: its arguments, result and effects
    target,          \* which of the two caches the calls under study address
    order_puts,      \* history: keys of _order_cache, least recently put first
    position_puts,   \* history: keys of _position_cache, least recently put first
    execid_seen,     \* the global execid_seen
    hstate,          \* on_execution_message: "idle", "running", or how it ended
    batch,           \* message["data"] of the call in progress (or of the last call)
    trace,           \* history: what the call did with each event it examined
    seen0,           \* history: execid_seen when the call began
    left,            \* history: execIds of unseen fill events left behind by a return
    threads,         \* on_execution_message run by two threads: each one's locals
    dispatched       \* history of the two threads' runs

rest_vars == <<now, order_cache, position_cache, op, target, order_puts, position_puts>>

handler_vars == <<execid_seen, hstate, batch, trace, seen0, left, threads, dispatched>>

vars == <<rest_vars, handler_vars>>

----------------------------------------------------------------------------
(* Bounds of the model *)

MaxTime == 2

MaxBatch == 2

(* Configuration of the program, scaled down *)

ORDER_CACHE_TTL == 1     \* cache_ttl_sec of get_order_details (3600)

ORDER_CACHE_MAX == 2     \* cache_max of get_order_details (3000)

POSITION_CACHE_TTL == 1  \* cache_ttl_sec of get_position_details (15)

POSITION_CACHE_MAX == 2  \* cache_max of get_position_details (2000)

EXECID_CACHE_MAX == 2    \* env EXECID_CACHE_MAX (5000)

----------------------------------------------------------------------------
(* Values *)

Max(a, b) == IF a >= b THEN a ELSE b

None == <<>>

Some(x) == <<x>>

\* A value of an "orderId" field: a str or an int; str() gives its digits.
StrVal(s) == [t |-> "str", v |-> s]

IntVal(s) == [t |-> "int", v |-> s]

Missing == [t |-> "missing", v |-> ""]

str(x) == x.v

OrderIds == {"1", "2", "3"}

\* {} and the order records the exchange may answer with
EmptyDict == [orderId |-> Missing]

OrderRecs == {[orderId |-> StrVal("1")], [orderId |-> IntVal("2")]}

\* an element of a response list that is no dict: it.get raises
BadItem == [orderId |-> [t |-> "bad", v |-> ""]]

\* it.get("orderId", "")
get_orderId(it) == IF it.orderId = Missing THEN StrVal("") ELSE it.orderId

Categories == {"", "Linear", "linear", "spot"}

\* (category or "").lower()
lower(category) == IF category = "Linear" THEN "linear" ELSE category

Symbols == {"", "BTCUSDT", "ETHUSDT"}

EmptyPos == "{}"

PosRecs == {"pos1"}

PositionKeys == {<<c, s>> : c \in {"linear", "spot"}, s \in {"BTCUSDT", "ETHUSDT"}}

\* the keys of the position cache when both caches are driven together
BothPositionKeys == {<<"linear", "BTCUSDT">>, <<"linear", "ETHUSDT">>}

----------------------------------------------------------------------------
(* Python dict, as the sequence of its entries [k, ts, data] *)

dict_has(d, k) == \E i \in 1..Len(d) : d[i].k = k

dict_item(d, k) == d[CHOOSE i \in 1..Len(d) : d[i].k = k]

dict_set(d, k, ts, data) ==
    IF dict_has(d, k)
    THEN [i \in 1..Len(d) |-> IF d[i].k = k THEN [k |-> k, ts |-> ts, data |-> data] ELSE d[i]]
    ELSE Append(d, [k |-> k, ts |-> ts, data |-> data])

dict_pop(d, k) == SelectSeq(d, LAMBDA e : e.k # k)

dict_keys(d) == {d[i].k : i \in 1..Len(d)}

RECURSIVE dict_pop_all(_, _)
dict_pop_all(d, items) ==
    IF items = <<>> THEN d
    ELSE dict_pop_all(dict_pop(d, Head(items).k), Tail(items))

\* sorted(items, key=ts): stable, so equal timestamps keep the dict's order
RECURSIVE insert_by_ts(_, _)
insert_by_ts(s, e) ==
    IF s = <<>> THEN <<e>>
    ELSE IF s[Len(s)].ts <= e.ts THEN Append(s, e)
    ELSE Append(insert_by_ts(SubSeq(s, 1, Len(s) - 1), e), s[Len(s)])

RECURSIVE sorted_by_ts(_)
sorted_by_ts(d) ==
    IF d = <<>> THEN <<>>
    ELSE insert_by_ts(sorted_by_ts(SubSeq(d, 1, Len(d) - 1)), d[Len(d)])

----------------------------------------------------------------------------
(* BybitRest: the cache helpers.  c is the dict, t the reading of          *)
(* time.time() inside the call.  A get gives [ret, cache].                 *)

\* _cache_get refreshing the timestamp of the entry it returns
cache_get_refresh(c, order_id, ttl_sec, t) ==
    IF ~dict_has(c, order_id) THEN [ret |-> None, cache |-> c]
    ELSE LET item == dict_item(c, order_id) IN
         IF t - item.ts > ttl_sec
         THEN [ret |-> None, cache |-> dict_pop(c, order_id)]
         ELSE [ret |-> Some(item.data), cache |-> dict_set(c, order_id, t, item.data)]

\* _cache_get returning the stale entry instead of dropping it
cache_get_no_expiry(c, order_id, ttl_sec, t) ==
    IF ~dict_has(c, order_id) THEN [ret |-> None, cache |-> c]
    ELSE [ret |-> Some(dict_item(c, order_id).data), cache |-> c]

cache_get(c, order_id, ttl_sec, t) ==
    IF ~dict_has(c, order_id) THEN [ret |-> None, cache |-> c]
    ELSE LET item == dict_item(c, order_id) IN
         IF t - item.ts > ttl_sec
         THEN [ret |-> None, cache |-> dict_pop(c, order_id)]
         ELSE [ret |-> Some(item.data), cache |-> c]

\* _cache_put without the eviction loop
cache_put_no_evict(c, order_id, data, max_items, t) ==
    dict_set(c, order_id, t, data)

\* _cache_put evicting from the other end of the sorted list
cache_put_evict_newest(c, order_id, data, max_items, t) ==
    LET c1 == dict_set(c, order_id, t, data) IN
    IF Len(c1) > max_items
    THEN LET items == sorted_by_ts(c1)
             n == Max(1, Len(items) - max_items) IN
         dict_pop_all(c1, SubSeq(items, Len(items) - n + 1, Len(items)))
    ELSE c1

cache_put(c, order_id, data, max_items, t) ==
    LET c1 == dict_set(c, order_id, t, data) IN
    IF Len(c1) > max_items
    THEN LET items == sorted_by_ts(c1) IN
         dict_pop_all(c1, SubSeq(items, 1, Max(1, Len(items) - max_items)))
    ELSE c1

position_cache_get(c, key, ttl_sec, t) ==
    IF ~dict_has(c, key) THEN [ret |-> None, cache |-> c]
    ELSE LET item == dict_item(c, key) IN
         IF t - item.ts > ttl_sec
         THEN [ret |-> None, cache |-> dict_pop(c, key)]
         ELSE [ret |-> Some(item.data), cache |-> c]

position_cache_put(c, key, data, max_items, t) ==
    LET c1 == dict_set(c, key, t, data) IN
    IF Len(c1) > max_items
    THEN LET items == sorted_by_ts(c1) IN
         dict_pop_all(c1, SubSeq(items, 1, Max(1, Len(items) - max_items)))
    ELSE c1

----------------------------------------------------------------------------
(* The answers of the exchange's REST client: the call raises, or gives    *)
(* the list found under result.list (empty when the payload is malformed). *)

Raises == [raise |-> TRUE, lst |-> <<>>]

Answer(lst) == [raise |-> FALSE, lst |-> lst]

SeqsUpTo(S, n) == UNION {[1..m -> S] : m \in 0..n}

FilteredAnswers == {Raises} \cup {Answer(l) : l \in SeqsUpTo(OrderRecs, 1)}

UnfilteredAnswers ==
    {Raises} \cup {Answer(l) : l \in SeqsUpTo(OrderRecs \cup {BadItem}, 2)}

PositionAnswers == {Raises} \cup {Answer(l) : l \in SeqsUpTo(PosRecs, 1)}

answer_kind(r) == IF r.raise THEN "raise" ELSE IF r.lst = <<>> THEN "empty" ELSE "list"

\* the fallback taking the first record of the unfiltered list unmatched
scan_first(lst, order_id) ==
    IF lst = <<>> \/ Head(lst) = BadItem THEN [found |-> FALSE, it |-> EmptyDict]
    ELSE [found |-> TRUE, it |-> Head(lst)]

\* for it in lst: if str(it.get("orderId", "")) == str(order_id): ... return it
RECURSIVE scan(_, _)
scan(lst, order_id) ==
    IF lst = <<>> THEN [found |-> FALSE, it |-> EmptyDict]
    ELSE IF Head(lst) = BadItem THEN [found |-> FALSE, it |-> EmptyDict]
    ELSE IF str(get_orderId(Head(lst))) = order_id
         THEN [found |-> TRUE, it |-> Head(lst)]
         ELSE scan(Tail(lst), order_id)

\* get_order_details without the final negative caching (no put of {})
get_order_details_no_negative(c, t, category, symbol, order_id, r1, r2) ==
    IF order_id = ""
    THEN [ret |-> EmptyDict, cache |-> c, queries |-> <<>>, put |-> None, raised |-> FALSE]
    ELSE
    LET cached == cache_get(c, order_id, ORDER_CACHE_TTL, t) IN
    IF cached.ret # None
    THEN [ret |-> cached.ret[1], cache |-> cached.cache, queries |-> <<>>, put |-> None, raised |-> FALSE]
    ELSE IF lower(category) = ""
    THEN [ret |-> EmptyDict, cache |-> cached.cache, queries |-> <<>>, put |-> None, raised |-> FALSE]
    ELSE IF ~r1.raise /\ r1.lst # <<>>
    THEN [ret |-> r1.lst[1],
          cache |-> cache_put(cached.cache, order_id, r1.lst[1], ORDER_CACHE_MAX, t),
          queries |-> <<"filtered">>, put |-> Some(r1.lst[1]), raised |-> FALSE]
    ELSE
    LET hit == IF r2.raise THEN [found |-> FALSE, it |-> EmptyDict]
               ELSE scan(r2.lst, order_id) IN
    IF hit.found
    THEN [ret |-> hit.it,
          cache |-> cache_put(cached.cache, order_id, hit.it, ORDER_CACHE_MAX, t),
          queries |-> <<"filtered", "unfiltered">>, put |-> Some(hit.it), raised |-> FALSE]
    ELSE [ret |-> EmptyDict, cache |-> cached.cache,
          queries |-> <<"filtered", "unfiltered">>, put |-> None, raised |-> FALSE]

(* get_order_details: c the order cache, t the clock during the call,      *)
(* r1 / r2 the answers of the filtered and of the unfiltered query.  Gives *)
(* the returned dict, the cache, the queries issued in order, the value    *)
(* stored, if any, and whether an exception left the call.                 *)
get_order_details(c, t, category, symbol, order_id, r1, r2) ==
    IF order_id = ""
    THEN [ret |-> EmptyDict, cache |-> c, queries |-> <<>>, put |-> None, raised |-> FALSE]
    ELSE
    LET cached == cache_get(c, order_id, ORDER_CACHE_TTL, t) IN
    IF cached.ret # None
    THEN [ret |-> cached.ret[1], cache |-> cached.cache, queries |-> <<>>, put |-> None, raised |-> FALSE]
    ELSE IF lower(category) = ""
    THEN [ret |-> EmptyDict, cache |-> cached.cache, queries |-> <<>>, put |-> None, raised |-> FALSE]
    ELSE IF ~r1.raise /\ r1.lst # <<>>
    THEN [ret |-> r1.lst[1],
          cache |-> cache_put(cached.cache, order_id, r1.lst[1], ORDER_CACHE_MAX, t),
          queries |-> <<"filtered">>, put |-> Some(r1.lst[1]), raised |-> FALSE]
    ELSE
    LET hit == IF r2.raise THEN [found |-> FALSE, it |-> EmptyDict]
               ELSE scan(r2.lst, order_id) IN
    IF hit.found
    THEN [ret |-> hit.it,
          cache |-> cache_put(cached.cache, order_id, hit.it, ORDER_CACHE_MAX, t),
          queries |-> <<"filtered", "unfiltered">>, put |-> Some(hit.it), raised |-> FALSE]
    ELSE [ret |-> EmptyDict,
          cache |-> cache_put(cached.cache, order_id, EmptyDict, ORDER_CACHE_MAX, t),
          queries |-> <<"filtered", "unfiltered">>, put |-> Some(EmptyDict), raised |-> FALSE]

\* get_position_details letting the exception of the positions query out
get_position_details_raising(c, t, category, symbol, r) ==
    IF lower(category) = "" \/ symbol = ""
    THEN [ret |-> EmptyPos, cache |-> c, queries |-> <<>>, put |-> None, raised |-> FALSE]
    ELSE
    LET key == <<lower(category), symbol>>
        cached == position_cache_get(c, key, POSITION_CACHE_TTL, t) IN
    IF cached.ret # None
    THEN [ret |-> cached.ret[1], cache |-> cached.cache, queries |-> <<>>, put |-> None,
          raised |-> FALSE]
    ELSE IF r.raise
    THEN [ret |-> EmptyPos, cache |-> cached.cache, queries |-> <<"positions">>,
          put |-> None, raised |-> TRUE]
    ELSE IF r.lst # <<>>
    THEN [ret |-> r.lst[1],
          cache |-> position_cache_put(cached.cache, key, r.lst[1], POSITION_CACHE_MAX, t),
          queries |-> <<"positions">>, put |-> Some(r.lst[1]), raised |-> FALSE]
    ELSE [ret |-> EmptyPos,
          cache |-> position_cache_put(cached.cache, key, EmptyPos, POSITION_CACHE_MAX, t),
          queries |-> <<"positions">>, put |-> Some(EmptyPos), raised |-> FALSE]

(* get_position_details, likewise; r the answer of the positions query *)
get_position_details(c, t, category, symbol, r) ==
    IF lower(category) = "" \/ symbol = ""
    THEN [ret |-> EmptyPos, cache |-> c, queries |-> <<>>, put |-> None, raised |-> FALSE]
    ELSE
    LET key == <<lower(category), symbol>>
        cached == position_cache_get(c, key, POSITION_CACHE_TTL, t) IN
    IF cached.ret # None
    THEN [ret |-> cached.ret[1], cache |-> cached.cache, queries |-> <<>>, put |-> None, raised |-> FALSE]
    ELSE IF ~r.raise /\ r.lst # <<>>
    THEN [ret |-> r.lst[1],
          cache |-> position_cache_put(cached.cache, key, r.lst[1], POSITION_CACHE_MAX, t),
          queries |-> <<"positions">>, put |-> Some(r.lst[1]), raised |-> FALSE]
    ELSE [ret |-> EmptyPos,
          cache |-> position_cache_put(cached.cache, key, EmptyPos, POSITION_CACHE_MAX, t),
          queries |-> <<"positions">>, put |-> Some(EmptyPos), raised |-> FALSE]

----------------------------------------------------------------------------
(* History kept for the claims: the keys of a cache in the order of their  *)
(* last put (least recently put first), each with the value put and the  *)
(* clock reading of the put.                                            *)

puts_after(puts, put, cache_after) ==
    LET p1 == IF put = None THEN puts
              ELSE Append(SelectSeq(puts, LAMBDA x : x.k # put[1].k), put[1])
    IN SelectSeq(p1, LAMBDA x : x.k \in dict_keys(cache_after))

Put(k, data, at) == Some([k |-> k, data |-> data, at |-> at])

\* the keys of a history, least recently put first
put_order(puts) == [i \in 1..Len(puts) |-> puts[i].k]

\* the most recent put of key k, for a key the history holds
last_put(puts, k) == puts[CHOOSE i \in 1..Len(puts) : puts[i].k = k]

NoOp == [name |-> "", key |-> "", category |-> "", ret |-> None, queries |-> <<>>,
         put |-> None, raised |-> FALSE, lost |-> {}, size1 |-> 0, t |-> 0,
         answers |-> <<>>]

OrderDicts == OrderRecs \cup {EmptyDict}

PosDicts == PosRecs \cup {EmptyPos}

----------------------------------------------------------------------------
(* The operations of BybitRest *)

InitRest ==
    /\ now = 0
    /\ target \in {"order", "position"}
    /\ order_cache = <<>>
    /\ position_cache = <<>>
    /\ op = NoOp
    /\ order_puts = <<>>
    /\ position_puts = <<>>
    /\ execid_seen = {}
    /\ hstate = "idle"
    /\ batch = <<>>
    /\ trace = <<>>
    /\ seen0 = {}
    /\ left = {}
    /\ threads = <<>>
    /\ dispatched = <<>>

Tick ==
    /\ now < MaxTime
    /\ now' = now + 1
    /\ UNCHANGED <<order_cache, position_cache, op, target, order_puts, position_puts,
                   handler_vars>>

CacheGet ==
    /\ target \in {"order", "both"}
    /\ \E order_id \in OrderIds :
      LET r == cache_get(order_cache, order_id, ORDER_CACHE_TTL, now) IN
      /\ order_cache' = r.cache
      /\ order_puts' = puts_after(order_puts, None, r.cache)
      /\ op' = [NoOp EXCEPT !.name = "_cache_get", !.key = order_id, !.ret = r.ret,
                            !.lost = dict_keys(order_cache) \ dict_keys(r.cache),
                            !.t = now]
      /\ UNCHANGED <<now, target, position_cache, position_puts, handler_vars>>

CachePut ==
    /\ target \in {"order", "both"}
    /\ \E order_id \in OrderIds, data \in (IF target = "both" THEN {EmptyDict} ELSE OrderDicts) :
      LET c == cache_put(order_cache, order_id, data, ORDER_CACHE_MAX, now) IN
      /\ order_cache' = c
      /\ order_puts' = puts_after(order_puts, Put(order_id, data, now), c)
      /\ op' = [NoOp EXCEPT !.name = "_cache_put", !.key = order_id, !.put = Some(data),
                            !.lost = (dict_keys(order_cache) \cup {order_id}) \ dict_keys(c),
                            !.size1 = Len(dict_set(order_cache, order_id, now, data)),
                            !.t = now]
      /\ UNCHANGED <<now, target, position_cache, position_puts, handler_vars>>

PositionCacheGet ==
    /\ target \in {"position", "both"}
    /\ \E key \in (IF target = "both" THEN BothPositionKeys ELSE PositionKeys) :
      LET r == position_cache_get(position_cache, key, POSITION_CACHE_TTL, now) IN
      /\ position_cache' = r.cache
      /\ position_puts' = puts_after(position_puts, None, r.cache)
      /\ op' = [NoOp EXCEPT !.name = "_position_cache_get", !.key = key, !.ret = r.ret,
                            !.lost = dict_keys(position_cache) \ dict_keys(r.cache),
                            !.t = now]
      /\ UNCHANGED <<now, target, order_cache, order_puts, handler_vars>>

PositionCachePut ==
    /\ target \in {"position", "both"}
    /\ \E key \in (IF target = "both" THEN BothPositionKeys ELSE PositionKeys),
          data \in (IF target = "both" THEN {EmptyPos} ELSE PosDicts) :
      LET c == position_cache_put(position_cache, key, data, POSITION_CACHE_MAX, now) IN
      /\ position_cache' = c
      /\ position_puts' = puts_after(position_puts, Put(key, data, now), c)
      /\ op' = [NoOp EXCEPT !.name = "_position_cache_put", !.key = key, !.put = Some(data),
                            !.lost = (dict_keys(position_cache) \cup {key}) \ dict_keys(c),
                            !.size1 = Len(dict_set(position_cache, key, now, data)),
                            !.t = now]
      /\ UNCHANGED <<now, target, order_cache, order_puts, handler_vars>>

\* whether get_order_details / get_position_details would query the exchange
order_query_needed(category, order_id) ==
    /\ order_id # ""
    /\ cache_get(order_cache, order_id, ORDER_CACHE_TTL, now).ret = None
    /\ lower(category) # ""

position_query_needed(category, symbol) ==
    /\ lower(category) # ""
    /\ symbol # ""
    /\ position_cache_get(position_cache, <<lower(category), symbol>>,
                          POSITION_CACHE_TTL, now).ret = None

\* the answers are drawn only when the queries are issued
GetOrderDetails ==
    /\ target = "order"
    /\ \E category \in {"", "linear"}, order_id \in OrderIds \cup {""} :
       \E r1 \in IF order_query_needed(category, order_id) THEN FilteredAnswers ELSE {Raises} :
       \E r2 \in IF order_query_needed(category, order_id) /\ (r1.raise \/ r1.lst = <<>>)
                 THEN UnfilteredAnswers ELSE {Raises} :
         LET r == get_order_details(order_cache, now, category, "BTCUSDT", order_id, r1, r2) IN
         /\ order_cache' = r.cache
         /\ order_puts' = puts_after(order_puts,
                IF r.put = None THEN None ELSE Put(order_id, r.put[1], now), r.cache)
         /\ op' = [NoOp EXCEPT !.name = "get_order_details", !.key = order_id,
                               !.category = category, !.ret = Some(r.ret),
                               !.queries = r.queries, !.put = r.put, !.raised = r.raised,
                               !.lost = dict_keys(order_cache) \ dict_keys(r.cache),
                               !.t = now,
                               !.answers = [i \in 1..Len(r.queries) |->
                                              answer_kind(IF i = 1 THEN r1 ELSE r2)]]
         /\ UNCHANGED <<now, target, position_cache, position_puts, handler_vars>>

GetPositionDetails ==
    /\ target = "position"
    /\ \E category \in Categories, symbol \in Symbols :
       \E r1 \in IF position_query_needed(category, symbol) THEN PositionAnswers ELSE {Raises} :
         LET r == get_position_details(position_cache, now, category, symbol, r1) IN
         /\ position_cache' = r.cache
         /\ position_puts' = puts_after(position_puts,
                IF r.put = None THEN None
                ELSE Put(<<lower(category), symbol>>, r.put[1], now), r.cache)
         /\ op' = [NoOp EXCEPT !.name = "get_position_details",
                               !.key = <<lower(category), symbol>>,
                               !.category = category, !.ret = Some(r.ret),
                               !.queries = r.queries, !.put = r.put, !.raised = r.raised,
                               !.lost = dict_keys(position_cache) \ dict_keys(r.cache),
                               !.t = now,
                               !.answers = [i \in 1..Len(r.queries) |-> answer_kind(r1)]]
         /\ UNCHANGED <<now, target, order_cache, order_puts, handler_vars>>

----------------------------------------------------------------------------
(* The websocket handler *)

ExecIds == {"a", "b", "c"}

\* (evt.get("execType") or evt.get("exec_type") or "").lower(); "" is an
\* event without the field
ExecTypes == {"", "Trade", "Funding"}

lower_type(x) == IF x = "Trade" THEN "trade" ELSE IF x = "Funding" THEN "funding" ELSE x

\* The events of the model: they differ in execType and execId; all are of
\* one order of one linear instrument and carry no unrealised PnL.
Events == [execType : ExecTypes, execId : ExecIds \cup {""},
           orderId : {"1"}, category : {"linear"}, symbol : {"BTCUSDT"}]

Batches == SeqsUpTo(Events, MaxBatch)

Min(a, b) == IF a <= b THEN a ELSE b

\* len(lst[-m:]) for a list of n elements
tail_len(n, m) == IF m > 0 THEN Min(n, m) ELSE IF m = 0 THEN n ELSE Max(0, n + m)

\* trim_exec_cache with the comparison off by one
trim_exec_cache_late(seen) ==
    IF Cardinality(seen) <= EXECID_CACHE_MAX + 1 THEN {seen}
    ELSE {s \in SUBSET seen : Cardinality(s) = tail_len(Cardinality(seen), EXECID_CACHE_MAX)}

(* trim_exec_cache: the sets execid_seen may be afterwards.  list(set) is  *)
(* in hash order, which differs from run to run for strings, so the tail   *)
(* kept is any subset of that size.                                        *)
trim_exec_cache(seen) ==
    IF Cardinality(seen) <= EXECID_CACHE_MAX THEN {seen}
    ELSE {s \in SUBSET seen : Cardinality(s) = tail_len(Cardinality(seen), EXECID_CACHE_MAX)}

\* the loop body skipping every event that has no execType "trade"
examine_trade_only(evt, seen) ==
    IF lower_type(evt.execType) # "trade" THEN "skip"
    ELSE IF evt.execId = "" THEN "skip"
    ELSE IF evt.execId \in seen THEN "return"
    ELSE "admit"

\* the loop body with the membership test inverted
examine_inverted(evt, seen) ==
    IF lower_type(evt.execType) # "" /\ lower_type(evt.execType) # "trade" THEN "skip"
    ELSE IF evt.execId = "" THEN "skip"
    ELSE IF evt.execId \notin seen THEN "return"
    ELSE "admit"

\* the loop body with continue in the place of return
examine_continue(evt, seen) ==
    IF lower_type(evt.execType) # "" /\ lower_type(evt.execType) # "trade" THEN "skip"
    ELSE IF evt.execId = "" THEN "skip"
    ELSE IF evt.execId \in seen THEN "skip"
    ELSE "admit"

(* The head of the loop body (lines 403-412): what becomes of the event *)
examine(evt, seen) ==
    IF lower_type(evt.execType) # "" /\ lower_type(evt.execType) # "trade" THEN "skip"
    ELSE IF evt.execId = "" THEN "skip"
    ELSE IF evt.execId \in seen THEN "return"
    ELSE "admit"

\* lines 414-422 with the except clause taking the id out of the set again
seen_after_forget(seen, exec_id, outcome) ==
    IF outcome = "sent" THEN trim_exec_cache(seen \cup {exec_id})
    ELSE {x \ {exec_id} : x \in trim_exec_cache(seen \cup {exec_id})}

(* What execid_seen may be after the turn of an admitted event (lines      *)
(* 414-422): the id is added and the set trimmed before the try block,     *)
(* and the except clause leaves the set alone whatever the outcome.        *)
seen_after(seen, exec_id, outcome) == trim_exec_cache(seen \cup {exec_id})

\* a handler whose try does not cover the failing call
on_exception_propagate(outcome) == IF outcome = "sent" THEN "continue" ELSE "raise"

(* try: build_message; tg_send_message / except Exception: log.exception *)
on_exception(outcome) == "continue"

\* what the try block may come to: the message sent, build_message raising
\* (before its lookups: execTime does not parse), tg_send_message raising
Outcomes == {"sent", "build_failed", "send_failed"}

\* the answers of the exchange while the handler runs
HandlerFiltered == {Raises, Answer(<<[orderId |-> StrVal("1")]>>)}

HandlerPositions == {Raises, Answer(<<"pos1">>)}

(* build_message as far as it changes BybitRest: the order lookup (when    *)
(* order_id and category are there) and the position lookup (when the      *)
(* event has no unrealised PnL and category is there).                     *)
build_message(evt, oc, pc, t, r1, r2, r3) ==
    LET od == IF evt.orderId # "" /\ evt.category # ""
              THEN get_order_details(oc, t, evt.category, evt.symbol, evt.orderId, r1, r2)
              ELSE [ret |-> EmptyDict, cache |-> oc, queries |-> <<>>, put |-> None,
                    raised |-> FALSE]
        pd == IF evt.category # ""
              THEN get_position_details(pc, t, evt.category, evt.symbol, r3)
              ELSE [ret |-> EmptyPos, cache |-> pc, queries |-> <<>>, put |-> None,
                    raised |-> FALSE]
    IN [order |-> od, position |-> pd]

ended == hstate \in {"returned", "abandoned", "no_list", "raised"}

\* the websocket client calls on_execution_message(message, rest)
Deliver ==
    /\ hstate = "idle"
    /\ \E b \in Batches :
         /\ batch' = b
         /\ hstate' = IF b = <<>> THEN "returned" ELSE "running"
    /\ trace' = <<>>
    /\ seen0' = execid_seen
    /\ UNCHANGED <<rest_vars, execid_seen, left, threads, dispatched>>

\* message["data"] is no list: the handler returns at once
DeliverNoList ==
    /\ hstate = "idle"
    /\ batch' = <<>>
    /\ hstate' = "no_list"
    /\ trace' = <<>>
    /\ seen0' = execid_seen
    /\ UNCHANGED <<rest_vars, execid_seen, left, threads, dispatched>>

entry(what, evt) == [o |-> what, dup |-> evt.execId \in execid_seen]

after(n) == IF n = Len(batch) THEN "returned" ELSE "running"

\* one turn of the loop for an event that is skipped or ends the call
Examine ==
    /\ hstate = "running"
    /\ LET evt == batch[Len(trace) + 1]
           e == examine(evt, execid_seen) IN
       /\ e # "admit"
       /\ trace' = Append(trace, entry(e, evt))
       /\ hstate' = IF e = "return" THEN "abandoned" ELSE after(Len(trace) + 1)
       /\ left' = IF e = "return"
                  THEN left \cup {batch[j].execId : j \in
                                    {k \in (Len(trace) + 2)..Len(batch) :
                                        examine(batch[k], execid_seen) = "admit"}}
                  ELSE left
    /\ UNCHANGED <<rest_vars, execid_seen, batch, seen0, threads, dispatched>>

\* one turn of the loop for an event that is admitted: mark, trim, try
Admit ==
    /\ hstate = "running"
    /\ LET evt == batch[Len(trace) + 1] IN
       /\ examine(evt, execid_seen) = "admit"
       /\ \E outcome \in Outcomes :
            /\ execid_seen' \in seen_after(execid_seen, evt.execId, outcome)
            /\ trace' = Append(trace, entry(outcome, evt))
            /\ hstate' = IF on_exception(outcome) = "raise" THEN "raised"
                         ELSE after(Len(trace) + 1)
            /\ IF outcome = "build_failed"
               THEN UNCHANGED <<order_cache, position_cache, order_puts, position_puts>>
               ELSE \E r1 \in IF order_query_needed(evt.category, evt.orderId)
                              THEN HandlerFiltered ELSE {Raises} :
                    \E r3 \in IF position_query_needed(evt.category, evt.symbol)
                              THEN HandlerPositions ELSE {Raises} :
                      LET b == build_message(evt, order_cache, position_cache, now,
                                             r1, Raises, r3) IN
                      /\ order_cache' = b.order.cache
                      /\ position_cache' = b.position.cache
                      /\ order_puts' = puts_after(order_puts,
                             IF b.order.put = None THEN None
                             ELSE Put(evt.orderId, b.order.put[1], now), b.order.cache)
                      /\ position_puts' = puts_after(position_puts,
                             IF b.position.put = None THEN None
                             ELSE Put(<<lower(evt.category), evt.symbol>>,
                                      b.position.put[1], now), b.position.cache)
    /\ UNCHANGED <<now, op, target, batch, seen0, left, threads, dispatched>>

\* the call is over: the websocket client has the thread back, and the
\* history of the call is dropped
Return ==
    /\ ended
    /\ hstate' = "idle"
    /\ batch' = <<>>
    /\ trace' = <<>>
    /\ seen0' = execid_seen
    /\ left' = left \ {batch[j].execId : j \in {k \in 1..Len(trace) : trace[k].o \in Outcomes}}
    /\ UNCHANGED <<rest_vars, execid_seen, threads, dispatched>>

InitHandler ==
    /\ InitRest
    /\ target = "order"

NextHandler ==
    \/ Deliver
    \/ DeliverNoList
    \/ Examine
    \/ Admit
    \/ Return

Spec == InitHandler /\ [][NextHandler]_vars

(* The caches driven directly: any sequence of puts and gets *)
NextCache ==
    \/ Tick
    \/ CacheGet
    \/ CachePut
    \/ PositionCacheGet
    \/ PositionCachePut

SpecCache == InitRest /\ [][NextCache]_vars

(* The caches driven through the two lookups *)
NextDetails ==
    \/ Tick
    \/ GetOrderDetails
    \/ GetPositionDetails

SpecDetails == InitRest /\ [][NextDetails]_vars

----------------------------------------------------------------------------
(* The handler's claims.  trace[i] tells what the call did with batch[i]:  *)
(* o is "skip", "return" or the outcome of the try block of an admitted    *)
(* event; dup tells whether the event's execId was in execid_seen when the *)
(* event was examined.                                                     *)

\* a fill event: execType absent or "trade", and an execId
fill(evt) == lower_type(evt.execType) \in {"", "trade"} /\ evt.execId # ""

\* the positions of the batch that hold a fill event with execId x
fills(x) == {j \in 1..Len(batch) : fill(batch[j]) /\ batch[j].execId = x}

\* the calls of tg_send_message made for execId x in this call of the handler
sends(x) == {j \in 1..Len(trace) : batch[j].execId = x
                                   /\ trace[j].o \in {"sent", "send_failed"}}

Failures == {"build_failed", "send_failed"}

(* C1: with EXECID_CACHE_MAX >= 1 execid_seen holds at most                *)
(* EXECID_CACHE_MAX ids whenever the handler has finished the mark-and-    *)
(* trim step of an event (every state of the model lies between two such   *)
(* steps), whatever the batches.                                           *)
C1_SeenBounded == Cardinality(execid_seen) <= EXECID_CACHE_MAX

\* an event has just been admitted into a full set: an id held when the
\* call began has been dropped by the trim
C1_Witness ==
    /\ Len(trace) >= 1
    /\ trace[Len(trace)].o \in Outcomes
    /\ Cardinality(execid_seen) = EXECID_CACHE_MAX
    /\ batch[Len(trace)].execId \in execid_seen
    /\ \E x \in seen0 : x \notin execid_seen

(* C2 as stated: a batch with two fill events of one execId that was not   *)
(* in execid_seen when the batch arrived causes exactly one call of        *)
(* tg_send_message for that execId.  (Stated for a call that reached the   *)
(* first of the two and in which build_message did not raise for it.)      *)
C2_OneDispatch ==
    ended =>
      \A x \in ExecIds :
        (/\ x \notin seen0
         /\ Cardinality(fills(x)) >= 2
         /\ \E j \in fills(x) : j <= Len(trace)
         /\ \A j \in 1..Len(trace) : batch[j].execId = x => trace[j].o # "build_failed")
        => Cardinality(sends(x)) = 1

(* C3 as stated: when the event at position i has an execId already in     *)
(* execid_seen, no event after it is processed and the handler returns.    *)
C3_DuplicateEndsBatch ==
    \A i \in 1..Len(trace) : trace[i].dup => (i = Len(trace) /\ hstate = "abandoned")

(* C3 amended: when a fill event (execType absent or "trade") at position  *)
(* i is examined with its execId already in execid_seen, the handler       *)
(* returns there: that step marks nothing seen and changes no cache, and   *)
(* no event at a position j > i is examined, marked, enriched or           *)
(* dispatched.  (An event of another execType is skipped even if its       *)
(* execId is in execid_seen, and the events after it are processed.)       *)
C3_FillDuplicateEndsBatch ==
    [][\A i \in 1..Len(trace') :
          (trace'[i].dup /\ fill(batch'[i])) =>
             /\ i = Len(trace')
             /\ trace'[i].o = "return"
             /\ hstate' = "abandoned"
             /\ Len(trace) < i =>
                  UNCHANGED <<execid_seen, order_cache, position_cache>>]_vars

\* the handler has returned at a duplicate and left an unseen fill event
\* of the batch unprocessed
C3_Witness ==
    /\ hstate = "abandoned"
    /\ Len(trace) < Len(batch)
    /\ fill(batch[Len(trace) + 1])
    /\ batch[Len(trace) + 1].execId \notin execid_seen

(* C4: when build_message or tg_send_message raises for an admitted event, *)
(* no exception leaves on_execution_message and the loop goes on: every    *)
(* later event is dealt with by the same rule as ever (skipped if no fill, *)
(* the end of the call if its execId is seen, else marked seen and given   *)
(* its own attempt).                                                       *)
C4_FailureDoesNotStopBatch ==
    /\ hstate # "raised"
    /\ \A i \in 1..Len(trace) :
         trace[i].o \in Failures =>
           /\ i = Len(trace) => hstate = after(i)
           /\ \A j \in (i + 1)..Len(trace) :
                IF ~fill(batch[j]) THEN trace[j].o = "skip"
                ELSE IF trace[j].dup THEN trace[j].o = "return"
                ELSE trace[j].o \in Outcomes

\* a later event of the batch was sent after an earlier one had failed
C4_Witness ==
    \E i, j \in 1..Len(trace) :
      /\ i < j
      /\ trace[i].o \in Failures
      /\ trace[j].o = "sent"
      /\ batch[j].execId \in execid_seen

----------------------------------------------------------------------------
(* The two caches, side by side *)

is_put == op.name \in {"_cache_put", "_position_cache_put"}

on_order == op.name \in {"_cache_put", "_cache_get", "get_order_details"}

\* the cache the last call addressed, its history and its parameters
op_cache == IF on_order THEN order_cache ELSE position_cache

op_puts == IF on_order THEN order_puts ELSE position_puts

op_max == IF on_order THEN ORDER_CACHE_MAX ELSE POSITION_CACHE_MAX

op_ttl == IF on_order THEN ORDER_CACHE_TTL ELSE POSITION_CACHE_TTL

----------------------------------------------------------------------------
(* C5: each cache holds at most max_items entries after every put (here:   *)
(* in every state); a put that makes the size exceed max_items removes     *)
(* exactly size - max_items entries and leaves exactly max_items, and a    *)
(* put that does not exceed it removes nothing.                            *)
C5_CacheBounded ==
    /\ Len(order_cache) <= ORDER_CACHE_MAX
    /\ Len(position_cache) <= POSITION_CACHE_MAX
    /\ is_put =>
         IF op.size1 > op_max
         THEN /\ Cardinality(op.lost) = op.size1 - op_max
              /\ Len(op_cache) = op_max
         ELSE /\ op.lost = {}
              /\ Len(op_cache) = op.size1

\* a put of a new key into a full order cache has just evicted one entry
C5_Witness ==
    /\ op.name = "_cache_put"
    /\ op.size1 = ORDER_CACHE_MAX + 1
    /\ Cardinality(op.lost) = 1
    /\ Len(order_cache) = ORDER_CACHE_MAX

----------------------------------------------------------------------------
\* what a put step evicts, seen from the state before it
c6_step(cache, puts) ==
    LET older == SelectSeq(put_order(puts), LAMBDA k : k # op'.key) IN
    [lost |-> op'.lost, key |-> op'.key, older |-> older, cache |-> cache]

\* (a step that leaves the clock alone is a call: only Tick moves the clock)
c6_put_step ==
    IF now' # now THEN None
    ELSE IF op'.name = "_cache_put" THEN Some(c6_step(order_cache, order_puts))
    ELSE IF op'.name = "_position_cache_put" THEN Some(c6_step(position_cache, position_puts))
    ELSE None

(* C6 as stated: whenever a put overflows a cache, what it evicts is the   *)
(* least recently put of the other keys (re-puts counted), and never the   *)
(* key of the triggering put - also for puts within one clock reading.     *)
C6_EvictsLeastRecentlyPut ==
    [][\A e \in {x \in {c6_put_step} : x # None /\ x[1].lost # {}} :
          /\ e[1].key \notin e[1].lost
          /\ e[1].lost = {Head(e[1].older)}]_vars

(* C6 amended: whenever a put overflows a cache, the evicted entry has the *)
(* smallest timestamp: its timestamp is at most that of every entry kept,  *)
(* so a key put at a strictly later clock reading than another is never    *)
(* evicted while the other is kept; the key of the triggering put is never *)
(* evicted.  (Among keys put within one clock reading the dict's insertion *)
(* order decides, not the order of the re-puts.)                           *)
C6_EvictsOldestTimestamp ==
    [][\A e \in {x \in {c6_put_step} : x # None /\ x[1].lost # {}} :
          /\ e[1].key \notin e[1].lost
          /\ \A k \in e[1].lost : \A i \in 1..Len(op_cache') :
               dict_item(e[1].cache, k).ts <= op_cache'[i].ts]_vars

\* an overflowing put has evicted a key whose timestamp was strictly older
\* than everything kept
C6_Witness ==
    /\ op.name = "_cache_put"
    /\ op.lost # {}
    /\ op.key \notin op.lost
    /\ \A i \in 1..Len(order_cache) : order_cache[i].ts >= 1
    /\ \E i \in 1..Len(order_cache) : order_cache[i].ts < now

----------------------------------------------------------------------------
\* the entry a get step looks at, seen from the state before it
c7_get_step ==
    LET cache == IF op'.name = "_cache_get" THEN order_cache ELSE position_cache
        puts == IF op'.name = "_cache_get" THEN order_puts ELSE position_puts
        ttl == IF op'.name = "_cache_get" THEN ORDER_CACHE_TTL ELSE POSITION_CACHE_TTL
    IN IF now' = now /\ op'.name \in {"_cache_get", "_position_cache_get"}
          /\ dict_has(cache, op'.key)
       THEN Some([item |-> dict_item(cache, op'.key), put |-> last_put(puts, op'.key),
                  ttl |-> ttl])
       ELSE None

(* C7: in both caches a get of a key whose entry has now - timestamp > ttl *)
(* returns None and removes the entry; a get of a key whose entry has      *)
(* now - timestamp <= ttl returns the value of the most recent put of that *)
(* key ({} included) and keeps the entry, and that put is at most ttl old. *)
C7_GetHonoursTtl ==
    [][\A g \in {x \in {c7_get_step} : x # None} :
          IF now - g[1].item.ts > g[1].ttl
          THEN /\ op'.ret = None
               /\ ~dict_has(op_cache', op'.key)
          ELSE /\ op'.ret = Some(g[1].put.data)
               /\ now - g[1].put.at <= g[1].ttl
               /\ dict_has(op_cache', op'.key)]_vars

\* a get has just found an expired entry and removed it
C7_Witness ==
    /\ op.name = "_cache_get"
    /\ op.ret = None
    /\ op.lost = {op.key}
    /\ ~dict_has(order_cache, op.key)

----------------------------------------------------------------------------
(* get_order_details and get_position_details.  A step that leaves the    *)
(* clock alone is a call, and op' describes it.                            *)

order_call == now' = now /\ op'.name = "get_order_details" /\ op'.key # ""

position_call == now' = now /\ op'.name = "get_position_details"

\* the cache holds an entry for key k that a get at the clock reading now returns
live(cache, k, ttl) == dict_has(cache, k) /\ now - dict_item(cache, k).ts <= ttl

holds(cache, k, data) == dict_has(cache, k) /\ dict_item(cache, k).data = data

(* C8 as stated: every outcome of get_order_details called with a         *)
(* non-empty order_id is stored in the order cache under that order_id.    *)
C8_EveryOutcomeCached ==
    (op.name = "get_order_details" /\ op.key # "")
        => holds(order_cache, op.key, op.ret[1])

(* C8 amended: every outcome of get_order_details called with a non-empty  *)
(* order_id and a non-empty category is stored in the order cache under    *)
(* that order_id; and a call that finds an entry for its order_id within   *)
(* the ttl issues no query, leaves the cache alone and returns the value   *)
(* stored last, {} in the not-found case.  (With an empty category and no  *)
(* live entry the call returns {} and stores nothing.)                     *)
C8_OutcomeCachedAndReused ==
    [][order_call =>
         /\ lower(op'.category) # "" => holds(order_cache', op'.key, op'.ret[1])
         /\ live(order_cache, op'.key, ORDER_CACHE_TTL) =>
              /\ op'.queries = <<>>
              /\ op'.ret = Some(last_put(order_puts, op'.key).data)
              /\ order_cache' = order_cache
         /\ (lower(op'.category) = "" /\ ~live(order_cache, op'.key, ORDER_CACHE_TTL)) =>
              /\ op'.ret = Some(EmptyDict)
              /\ op'.put = None]_vars

\* a repeated call has just been answered {} from the cache, without a query
C8_Witness ==
    /\ op.name = "get_order_details"
    /\ lower(op.category) # ""
    /\ op.queries = <<>>
    /\ op.ret = Some(EmptyDict)
    /\ holds(order_cache, op.key, EmptyDict)

----------------------------------------------------------------------------
c9_common ==
    /\ Len(op'.queries) <= 2
    /\ ~op'.raised
    /\ live(order_cache, op'.key, ORDER_CACHE_TTL) => op'.queries = <<>>
    /\ op'.queries \in {<<>>, <<"filtered">>, <<"filtered", "unfiltered">>}
    /\ Len(op'.queries) = 2 => op'.answers[1] \in {"raise", "empty"}
    /\ (Len(op'.queries) = 2 /\ op'.ret # Some(EmptyDict)) =>
           str(get_orderId(op'.ret[1])) = op'.key

(* C9 as stated: on a cache hit no query is issued; on a miss the filtered *)
(* query is issued first and the unfiltered one only if the filtered one   *)
(* raised or returned no record; at most two queries; no exception leaves  *)
(* the call; a record from the fallback scan has orderId equal (as         *)
(* strings) to the order_id asked for.                                     *)
C9_QueryOrder ==
    [][order_call =>
         /\ c9_common
         /\ ~live(order_cache, op'.key, ORDER_CACHE_TTL) =>
              /\ Len(op'.queries) >= 1
              /\ op'.queries[1] = "filtered"]_vars

(* C9 amended: as stated, except that on a miss the filtered query is      *)
(* issued (first) only when the category is non-empty; on a miss with an   *)
(* empty category no query is issued at all and {} is returned.            *)
C9_QueryOrderWithCategory ==
    [][order_call =>
         /\ c9_common
         /\ ~live(order_cache, op'.key, ORDER_CACHE_TTL) =>
              IF lower(op'.category) # ""
              THEN /\ Len(op'.queries) >= 1
                   /\ op'.queries[1] = "filtered"
                   /\ op'.answers[1] = "list" => op'.queries = <<"filtered">>
              ELSE /\ op'.queries = <<>>
                   /\ op'.ret = Some(EmptyDict)]_vars

\* the fallback scan has just found the record whose int orderId prints as
\* the order_id asked for, after the filtered query failed
C9_Witness ==
    /\ op.name = "get_order_details"
    /\ op.queries = <<"filtered", "unfiltered">>
    /\ op.answers[1] = "raise"
    /\ op.ret = Some([orderId |-> IntVal("2")])
    /\ op.key = "2"

----------------------------------------------------------------------------
(* C10: get_position_details returns {} without a query and without        *)
(* changing the position cache when category or symbol is missing; when    *)
(* the positions query raises or returns an empty list it returns {},      *)
(* lets no exception out and stores {} under (category, symbol); a call    *)
(* that finds an entry within the ttl issues no query and returns it.      *)
C10_PositionDetails ==
    [][position_call =>
         /\ ~op'.raised
         /\ (op'.key[1] = "" \/ op'.key[2] = "") =>
              /\ op'.ret = Some(EmptyPos)
              /\ op'.queries = <<>>
              /\ position_cache' = position_cache
         /\ (op'.queries # <<>> /\ op'.answers[1] \in {"raise", "empty"}) =>
              /\ op'.ret = Some(EmptyPos)
              /\ holds(position_cache', op'.key, EmptyPos)
              /\ dict_item(position_cache', op'.key).ts = now
         /\ (op'.key[1] # "" /\ op'.key[2] # ""
               /\ live(position_cache, op'.key, POSITION_CACHE_TTL)) =>
              /\ op'.queries = <<>>
              /\ op'.ret = Some(last_put(position_puts, op'.key).data)]_vars

\* the positions query has just raised: {} returned and stored
C10_Witness ==
    /\ op.name = "get_position_details"
    /\ op.answers = <<"raise">>
    /\ op.ret = Some(EmptyPos)
    /\ ~op.raised
    /\ holds(position_cache, op.key, EmptyPos)

----------------------------------------------------------------------------
(* The helpers of the message: calc_rr, to_float, get_rsi_4h.  A float is  *)
(* modelled as the exact rational [n, d] in lowest terms.                  *)

RECURSIVE Gcd(_, _)
Gcd(a, b) == IF b = 0 THEN a ELSE Gcd(b, a % b)

\* n / d for n >= 0, d > 0
Ratio(n, d) == LET g == Gcd(n, d) IN [n |-> n \div g, d |-> d \div g]

\* "-" stands for the dash build_message puts for a missing field
Sides == {"buy", "Buy", "long", "sell", "Sell", "short", "", "-"}

\* (side or "").lower()
lower_side(side) ==
    IF side = "Buy" THEN "buy" ELSE IF side = "Sell" THEN "sell" ELSE side

\* calc_rr with the risk of a long computed from the wrong side of the entry
calc_rr_swapped(side, entry_price, sl, tp) ==
    IF entry_price = None \/ sl = None \/ tp = None THEN None
    ELSE LET is_long == lower_side(side) \in {"buy", "long"}
             risk == IF is_long THEN sl[1] - entry_price[1] ELSE sl[1] - entry_price[1]
             reward == IF is_long THEN tp[1] - entry_price[1] ELSE entry_price[1] - tp[1]
         IN IF risk <= 0 \/ reward <= 0 THEN None ELSE Some(Ratio(reward, risk))

(* calc_rr(side, entry, sl, tp); entry, sl, tp are None or Some(number) *)
calc_rr(side, entry_price, sl, tp) ==
    IF entry_price = None \/ sl = None \/ tp = None THEN None
    ELSE LET is_long == lower_side(side) \in {"buy", "long"}
             risk == IF is_long THEN entry_price[1] - sl[1] ELSE sl[1] - entry_price[1]
             reward == IF is_long THEN tp[1] - entry_price[1] ELSE entry_price[1] - tp[1]
         IN IF risk <= 0 \/ reward <= 0 THEN None ELSE Some(Ratio(reward, risk))

\* the strings float() parses to a finite number, with their values
Floats == [s \in {"2", "3", "5", "7", "70", "90", "100", "110", "130"} |->
             CASE s = "2" -> 2 [] s = "3" -> 3 [] s = "5" -> 5 [] s = "7" -> 7
               [] s = "70" -> 70 [] s = "90" -> 90 [] s = "100" -> 100
               [] s = "110" -> 110 [] s = "130" -> 130]

(* to_float(x); x is None or Some(string).  None, "" and the dash give     *)
(* None; so does a string float() rejects ("abc") or parses to a value     *)
(* that is not finite ("inf").                                             *)
to_float(x) ==
    IF x = None THEN None
    ELSE IF x[1] \in {"", "-"} THEN None
    ELSE IF x[1] \in DOMAIN Floats THEN Some(Floats[x[1]])
    ELSE None

\* Python's a or b for values that are None or Some(string)
or_else(a, b) == IF a = None \/ a = Some("") THEN b ELSE a

----------------------------------------------------------------------------
(* get_rsi_4h.  A candle is [ts, close, bad]: r[0], r[4], and whether      *)
(* float(r[4]) raises.                                                     *)

MaxBars == 4

Closes == 1..4

RsiLengths == {1, 2}

Perms(n) == {p \in [1..n -> 1..n] : \A i, j \in 1..n : p[i] = p[j] => i = j}

\* the candle lists of well-formed bars, in every order of delivery
GoodRows ==
    UNION {{[i \in 1..n |-> [ts |-> p[i], close |-> c[i], bad |-> FALSE]] :
               p \in Perms(n), c \in [1..n -> Closes]} : n \in 0..MaxBars}

\* candle lists with one bar whose close does not parse
BadRows ==
    UNION {{[i \in 1..n |-> [ts |-> i, close |-> 1, bad |-> (i = b)]] : b \in 1..n} :
              n \in 1..MaxBars}

KlineAnswers == {Raises} \cup {Answer(l) : l \in GoodRows \cup BadRows}

\* gains (up = TRUE) or losses of the closes: max(d, 0.0), max(-d, 0.0)
deltas(closes, up) ==
    [i \in 1..(Len(closes) - 1) |->
        LET d == closes[i + 1] - closes[i] IN Max(IF up THEN d ELSE 0 - d, 0)]

RECURSIVE sum_first(_, _)
sum_first(xs, k) == IF k = 0 THEN 0 ELSE sum_first(xs, k - 1) + xs[k]

\* for i in range(length, len(gains)): avg = (avg * (length - 1) + x[i]) / length
RECURSIVE smoothed(_, _, _, _)
smoothed(avg, xs, i, length) ==
    IF i > Len(xs) THEN avg
    ELSE smoothed([n |-> avg.n * (length - 1) + xs[i] * avg.d, d |-> avg.d * length],
                  xs, i + 1, length)

\* get_rsi_4h asking for one bar less than it should
get_rsi_4h_short(category, symbol, length, r) ==
    IF lower(category) = "" THEN [ret |-> None, queries |-> <<>>, raised |-> FALSE]
    ELSE IF r.raise THEN [ret |-> None, queries |-> <<"kline">>, raised |-> FALSE]
    ELSE IF r.lst = <<>> \/ Len(r.lst) < length + 1
    THEN [ret |-> None, queries |-> <<"kline">>, raised |-> FALSE]
    ELSE IF \E i \in 1..Len(r.lst) : r.lst[i].bad
    THEN [ret |-> None, queries |-> <<"kline">>, raised |-> FALSE]
    ELSE
    LET rows == sorted_by_ts(r.lst)
        closes == [i \in 1..Len(rows) |-> rows[i].close]
        gains == deltas(closes, TRUE)
        losses == deltas(closes, FALSE)
        avg_gain == smoothed([n |-> sum_first(gains, length), d |-> length],
                             gains, length + 1, length)
        avg_loss == smoothed([n |-> sum_first(losses, length), d |-> length],
                             losses, length + 1, length)
    IN [ret |-> IF avg_loss.n = 0 THEN Some(Ratio(100, 1))
                ELSE Some(Ratio(100 * avg_gain.n, avg_gain.n + avg_loss.n)),
        queries |-> <<"kline">>, raised |-> FALSE]

\* get_rsi_4h without the sort by timestamp
get_rsi_4h_unsorted(category, symbol, length, r) ==
    IF lower(category) = "" THEN [ret |-> None, queries |-> <<>>, raised |-> FALSE]
    ELSE IF r.raise THEN [ret |-> None, queries |-> <<"kline">>, raised |-> FALSE]
    ELSE IF r.lst = <<>> \/ Len(r.lst) < length + 2
    THEN [ret |-> None, queries |-> <<"kline">>, raised |-> FALSE]
    ELSE IF \E i \in 1..Len(r.lst) : r.lst[i].bad
    THEN [ret |-> None, queries |-> <<"kline">>, raised |-> FALSE]
    ELSE
    LET rows == r.lst
        closes == [i \in 1..Len(rows) |-> rows[i].close]
        gains == deltas(closes, TRUE)
        losses == deltas(closes, FALSE)
        avg_gain == smoothed([n |-> sum_first(gains, length), d |-> length],
                             gains, length + 1, length)
        avg_loss == smoothed([n |-> sum_first(losses, length), d |-> length],
                             losses, length + 1, length)
    IN [ret |-> IF avg_loss.n = 0 THEN Some(Ratio(100, 1))
                ELSE Some(Ratio(100 * avg_gain.n, avg_gain.n + avg_loss.n)),
        queries |-> <<"kline">>, raised |-> FALSE]

(* get_rsi_4h(category, symbol, length); r is the answer of get_kline.     *)
(* avg_gain and avg_loss have one denominator, so rs = avg_gain.n /        *)
(* avg_loss.n and 100 - 100 / (1 + rs) = 100 * gain / (gain + loss).       *)
get_rsi_4h(category, symbol, length, r) ==
    IF lower(category) = "" THEN [ret |-> None, queries |-> <<>>, raised |-> FALSE]
    ELSE IF r.raise THEN [ret |-> None, queries |-> <<"kline">>, raised |-> FALSE]
    ELSE IF r.lst = <<>> \/ Len(r.lst) < length + 2
    THEN [ret |-> None, queries |-> <<"kline">>, raised |-> FALSE]
    ELSE IF \E i \in 1..Len(r.lst) : r.lst[i].bad
    THEN [ret |-> None, queries |-> <<"kline">>, raised |-> FALSE]
    ELSE
    LET rows == sorted_by_ts(r.lst)
        closes == [i \in 1..Len(rows) |-> rows[i].close]
        gains == deltas(closes, TRUE)
        losses == deltas(closes, FALSE)
        avg_gain == smoothed([n |-> sum_first(gains, length), d |-> length],
                             gains, length + 1, length)
        avg_loss == smoothed([n |-> sum_first(losses, length), d |-> length],
                             losses, length + 1, length)
    IN [ret |-> IF avg_loss.n = 0 THEN Some(Ratio(100, 1))
                ELSE Some(Ratio(100 * avg_gain.n, avg_gain.n + avg_loss.n)),
        queries |-> <<"kline">>, raised |-> FALSE]

----------------------------------------------------------------------------
(* build_message: the values and the lines of the text.  A field of the    *)
(* event or of a looked-up dict is None (absent) or Some(string).  A line  *)
(* is [label, value, text]: text tells what follows the label, the         *)
(* formatted value ("fmt_num") or the literal "n/a".                       *)

EmptyDetails == [stopLoss |-> None, takeProfit |-> None, closedPnl |-> None,
                 realizedPnl |-> None]

HeadLines == <<"header", "", "exchange", "market", "symbol", "side", "order_type",
               "status", "", "price", "qty", "notional", "fee">>

TailLines == <<"", "time", "exec_id", "order_id", "", "links">>

fixed(labels) == [i \in 1..Len(labels) |-> [label |-> labels[i], value |-> None, text |-> ""]]

\* if v is not None: lines.append(label + fmt_num(v))
optional(label, v) ==
    IF v # None THEN <<[label |-> label, value |-> v, text |-> "fmt_num"]>> ELSE <<>>

\* lines 340-378 with the Stop Loss line appended unconditionally
message_lines_always_sl(realized_pnl, current_pnl, stop_loss, take_profit, rr_ratio, rsi) ==
    fixed(HeadLines)
    \o optional("Realized PnL", realized_pnl)
    \o optional("Current PnL", current_pnl)
    \o <<[label |-> "Stop Loss", value |-> stop_loss, text |-> "fmt_num"]>>
    \o optional("Take Profit", take_profit)
    \o optional("R:R", rr_ratio)
    \o <<[label |-> "RSI (4H)", value |-> rsi,
          text |-> IF rsi # None THEN "fmt_num" ELSE "n/a"]>>
    \o fixed(TailLines)

(* lines 335-378: the list of lines joined into the text *)
message_lines(realized_pnl, current_pnl, stop_loss, take_profit, rr_ratio, rsi) ==
    fixed(HeadLines)
    \o optional("Realized PnL", realized_pnl)
    \o optional("Current PnL", current_pnl)
    \o optional("Stop Loss", stop_loss)
    \o optional("Take Profit", take_profit)
    \o optional("R:R", rr_ratio)
    \o <<[label |-> "RSI (4H)", value |-> rsi,
          text |-> IF rsi # None THEN "fmt_num" ELSE "n/a"]>>
    \o fixed(TailLines)

(* build_message as far as its text goes (lines 284-378): evt the event,   *)
(* od / pd what get_order_details / get_position_details return when they  *)
(* are called, rsi what get_rsi_4h returns.                                *)
build_message_text(evt, od, pd, rsi) ==
    LET order_details == IF evt.orderId # "" /\ evt.category # "" THEN od ELSE EmptyDetails
        realized0 == to_float(evt.execPnl)
        realized_pnl == IF realized0 = None
                        THEN to_float(or_else(order_details.closedPnl,
                                              order_details.realizedPnl))
                        ELSE realized0
        stop_loss == to_float(order_details.stopLoss)
        take_profit == to_float(order_details.takeProfit)
        entry_price == to_float(evt.execPrice)
        current0 == to_float(evt.pnl)
        current_pnl == IF current0 = None /\ evt.category # ""
                       THEN to_float(pd.unrealisedPnl) ELSE current0
        rr_ratio == calc_rr(evt.side, entry_price, stop_loss, take_profit)
    IN [realized_pnl |-> realized_pnl, current_pnl |-> current_pnl,
        stop_loss |-> stop_loss, take_profit |-> take_profit,
        rr_ratio |-> rr_ratio, rsi |-> rsi,
        lines |-> message_lines(realized_pnl, current_pnl, stop_loss, take_profit,
                                rr_ratio, rsi)]

----------------------------------------------------------------------------
(* The helpers called once each: the call is drawn at the start (op holds  *)
(* its arguments under key, ret is None), and the step of the call puts    *)
(* Some(result) under ret.                                                 *)

Prices == {None} \cup {Some(x) : x \in {0 - 10, 0, 70, 90, 100, 110, 130}}

CalcRrCalls ==
    {[NoOp EXCEPT !.name = "calc_rr",
                  !.key = [side |-> side, entry |-> e, sl |-> sl, tp |-> tp]] :
        side \in Sides, e \in Prices, sl \in Prices, tp \in Prices}

RsiCalls ==
    {[NoOp EXCEPT !.name = "get_rsi_4h",
                  !.key = [category |-> c, length |-> n, r |-> IF c = "" THEN Raises ELSE r]] :
        c \in {"", "Linear"}, n \in RsiLengths, r \in KlineAnswers}

MessageEvents ==
    [category : {"", "linear"}, orderId : {"1"}, side : {"Buy", "Sell"},
     execPrice : {Some("-"), Some("100")}, execPnl : {None, Some("5")},
     pnl : {None, Some("7")}]

MessageDetails ==
    [stopLoss : {None, Some(""), Some("90"), Some("110")},
     takeProfit : {None, Some("abc"), Some("70"), Some("130")},
     closedPnl : {None, Some("3")}, realizedPnl : {None}]

MessagePositions == [unrealisedPnl : {None, Some("2")}]

MessageCalls ==
    {[NoOp EXCEPT !.name = "build_message",
                  !.key = [evt |-> evt, od |-> od, pd |-> pd, rsi |-> rsi]] :
        evt \in MessageEvents, od \in MessageDetails, pd \in MessagePositions,
        rsi \in {None, Some(Ratio(100, 3))}}

InitFunctions ==
    /\ now = 0
    /\ target = "order"
    /\ order_cache = <<>>
    /\ position_cache = <<>>
    /\ op \in CalcRrCalls \cup RsiCalls \cup MessageCalls
    /\ order_puts = <<>>
    /\ position_puts = <<>>
    /\ execid_seen = {}
    /\ hstate = "idle"
    /\ batch = <<>>
    /\ trace = <<>>
    /\ seen0 = {}
    /\ left = {}
    /\ threads = <<>>
    /\ dispatched = <<>>

CalcRr ==
    /\ op.name = "calc_rr"
    /\ op.ret = None
    /\ op' = [op EXCEPT !.ret = Some(calc_rr(op.key.side, op.key.entry, op.key.sl, op.key.tp))]
    /\ UNCHANGED <<now, order_cache, position_cache, target, order_puts, position_puts,
                   handler_vars>>

GetRsi4h ==
    /\ op.name = "get_rsi_4h"
    /\ op.ret = None
    /\ LET r == get_rsi_4h(op.key.category, "BTCUSDT", op.key.length, op.key.r) IN
       op' = [op EXCEPT !.ret = Some(r.ret), !.queries = r.queries, !.raised = r.raised]
    /\ UNCHANGED <<now, order_cache, position_cache, target, order_puts, position_puts,
                   handler_vars>>

BuildMessage ==
    /\ op.name = "build_message"
    /\ op.ret = None
    /\ op' = [op EXCEPT !.ret = Some(build_message_text(op.key.evt, op.key.od, op.key.pd,
                                                        op.key.rsi))]
    /\ UNCHANGED <<now, order_cache, position_cache, target, order_puts, position_puts,
                   handler_vars>>

NextFunctions ==
    \/ CalcRr
    \/ GetRsi4h
    \/ BuildMessage

SpecFunctions == InitFunctions /\ [][NextFunctions]_vars

\* the call of the named helper has returned
returned(name) == op.name = name /\ op.ret # None

----------------------------------------------------------------------------
\* the lines of the returned text that carry the label
lines_of(label) ==
    LET ls == op.ret[1].lines IN {i \in 1..Len(ls) : ls[i].label = label}

c11_optional ==
    LET m == op.ret[1] IN
    /\ (lines_of("Realized PnL") # {}) <=> (m.realized_pnl # None)
    /\ (lines_of("Current PnL") # {}) <=> (m.current_pnl # None)
    /\ (lines_of("Stop Loss") # {}) <=> (m.stop_loss # None)
    /\ (lines_of("Take Profit") # {}) <=> (m.take_profit # None)
    /\ (lines_of("R:R") # {}) <=> (m.rr_ratio # None)

----------------------------------------------------------------------------
(* C12: calc_rr returns None when an input is None or the risk or the      *)
(* reward is <= 0, and reward / risk otherwise, a ratio > 0; for a side    *)
(* that is buy or long (in any case) risk = entry - stopLoss and reward =  *)
(* takeProfit - entry, for every other side risk = stopLoss - entry and    *)
(* reward = entry - takeProfit; buy 100/90/130 and sell 100/110/70 give 3. *)
C12_CalcRr ==
    returned("calc_rr") =>
        LET k == op.key
            ret == op.ret[1] IN
        /\ (k.entry = None \/ k.sl = None \/ k.tp = None) => ret = None
        /\ (k.entry # None /\ k.sl # None /\ k.tp # None) =>
             LET is_long == k.side \in {"buy", "Buy", "long"}
                 risk == IF is_long THEN k.entry[1] - k.sl[1] ELSE k.sl[1] - k.entry[1]
                 reward == IF is_long THEN k.tp[1] - k.entry[1] ELSE k.entry[1] - k.tp[1]
             IN IF risk <= 0 \/ reward <= 0 THEN ret = None
                ELSE /\ ret # None
                     /\ ret[1].n > 0 /\ ret[1].d > 0
                     /\ ret[1].n * risk = ret[1].d * reward
        /\ (k.side = "buy" /\ k.entry = Some(100) /\ k.sl = Some(90) /\ k.tp = Some(130))
             => ret = Some([n |-> 3, d |-> 1])

\* sell 100/110/70 has given 3
C12_Witness ==
    /\ returned("calc_rr")
    /\ op.key = [side |-> "sell", entry |-> Some(100), sl |-> Some(110), tp |-> Some(70)]
    /\ op.ret = Some(Some([n |-> 3, d |-> 1]))

----------------------------------------------------------------------------
\* the call got at least length + 2 well-formed bars
c13_enough ==
    /\ op.queries = <<"kline">>
    /\ ~op.key.r.raise
    /\ Len(op.key.r.lst) >= op.key.length + 2
    /\ \A i \in 1..Len(op.key.r.lst) : ~op.key.r.lst[i].bad

\* the closes rise (dir = 1) or fall (dir = -1) strictly with the timestamps
c13_monotone(dir) ==
    LET rows == op.key.r.lst IN
    \A i, j \in 1..Len(rows) :
        rows[i].ts < rows[j].ts => dir * rows[i].close < dir * rows[j].close

(* C13: for a candle list of at least length + 2 bars, in whatever order   *)
(* it is delivered, get_rsi_4h returns 100 if the closes are strictly      *)
(* increasing in timestamp order and 0 if they are strictly decreasing.    *)
C13_MonotoneRsi ==
    (returned("get_rsi_4h") /\ c13_enough) =>
        /\ c13_monotone(1) => op.ret = Some(Some([n |-> 100, d |-> 1]))
        /\ c13_monotone(0 - 1) => op.ret = Some(Some([n |-> 0, d |-> 1]))

\* falling closes delivered newest first have given 0
C13_Witness ==
    /\ returned("get_rsi_4h")
    /\ c13_enough
    /\ c13_monotone(0 - 1)
    /\ op.key.r.lst[1].ts > op.key.r.lst[2].ts
    /\ op.ret = Some(Some([n |-> 0, d |-> 1]))

----------------------------------------------------------------------------
(* C14: get_rsi_4h returns None and raises nothing when the candle query   *)
(* gives fewer than length + 2 bars (none included), when the query raises *)
(* and when a bar does not parse; it returns a number only when at least   *)
(* length + 2 bars were obtained.                                          *)
C14_RsiNoneWhenShort ==
    returned("get_rsi_4h") =>
        LET r == op.key.r IN
        /\ ~op.raised
        /\ (r.raise \/ Len(r.lst) < op.key.length + 2
              \/ \E i \in 1..Len(r.lst) : r.lst[i].bad) => op.ret = Some(None)
        /\ op.ret # Some(None) =>
              /\ op.queries = <<"kline">>
              /\ ~r.raise
              /\ Len(r.lst) >= op.key.length + 2

\* a query that gave length + 1 bars has been answered None
C14_Witness ==
    /\ returned("get_rsi_4h")
    /\ op.queries = <<"kline">>
    /\ ~op.key.r.raise
    /\ Len(op.key.r.lst) = op.key.length + 1
    /\ op.ret = Some(None)

----------------------------------------------------------------------------
(* More of the handler.  A step that makes trace one longer is the turn of *)
(* the loop for the event at that position.                                *)

turn == hstate = "running" /\ Len(trace') = Len(trace) + 1

\* the event of the turn, and what the turn did with it
turn_evt == batch[Len(trace) + 1]

turn_o == trace'[Len(trace) + 1].o

(* C15: an event whose execType is present and not "trade" (in any case),  *)
(* or whose execId is empty, is skipped: its turn leaves execid_seen and   *)
(* the caches alone, makes no attempt, and does not end the call unless    *)
(* the event is the last of the batch, so the next event is examined; an   *)
(* event without execType that has an execId is treated as a fill: it is   *)
(* admitted, or ends the call if its execId is in execid_seen.             *)
C15_NonFillSkipped ==
    [][turn =>
         /\ ~fill(turn_evt) =>
              /\ turn_o = "skip"
              /\ UNCHANGED <<execid_seen, order_cache, position_cache>>
              /\ hstate' = IF Len(trace') = Len(batch) THEN "returned" ELSE "running"
         /\ (turn_evt.execType = "" /\ turn_evt.execId # "") =>
              IF turn_evt.execId \in execid_seen THEN turn_o = "return"
              ELSE turn_o \in Outcomes]_vars

\* a funding event whose execId is in the set was skipped and the fill
\* event after it was sent
C15_Witness ==
    \E i, j \in 1..Len(trace) :
      /\ i < j
      /\ lower_type(batch[i].execType) = "funding"
      /\ trace[i].dup
      /\ trace[i].o = "skip"
      /\ batch[j].execType = ""
      /\ trace[j].o = "sent"

----------------------------------------------------------------------------
(* C17: under sequential invocation an attempt (the try block with         *)
(* build_message and tg_send_message) is made for an execId only in a turn *)
(* that found the id outside execid_seen, and that turn adds the id before *)
(* the attempt and does not take it out when the attempt fails: the set    *)
(* after the turn is the trimmed set with the id added, whatever the       *)
(* outcome.  So while an id stays in the set no further attempt is made    *)
(* for it, and a redelivered event that failed is not notified.            *)
C17_SeenBeforeAttempt ==
    [][turn =>
         /\ turn_o \in Outcomes =>
              /\ turn_evt.execId \notin execid_seen
              /\ execid_seen' \in trim_exec_cache(execid_seen \cup {turn_evt.execId})
              /\ Cardinality(execid_seen) < EXECID_CACHE_MAX =>
                   turn_evt.execId \in execid_seen'
         /\ (fill(turn_evt) /\ turn_evt.execId \in execid_seen) =>
              /\ turn_o = "return"
              /\ UNCHANGED execid_seen]_vars

\* the event failed and is delivered again in the same batch: the second
\* finds the id in the set and no attempt is made
C17_Witness ==
    /\ Len(trace) = 2
    /\ batch[1].execId = batch[2].execId
    /\ trace[1].o \in Failures
    /\ trace[2].o = "return"
    /\ batch[1].execId \in execid_seen

----------------------------------------------------------------------------
(* C18: the events a call leaves unprocessed, because an earlier event of  *)
(* the batch had an execId in execid_seen, leave execid_seen unchanged     *)
(* (the step that ends the call and the return change nothing, and an id   *)
(* left behind outside the set is outside it until a turn admits it);      *)
(* every fill event whose turn comes and finds its execId outside the set  *)
(* - in a later batch every fill event not preceded by one with a seen     *)
(* execId - has the id added to the set and its attempt made.              *)
C18_UnprocessedLeftUnseen ==
    [][/\ (hstate' = "abandoned" \/ hstate = "abandoned") => UNCHANGED execid_seen
       /\ \A x \in left' : x \in execid_seen' =>
            \E j \in 1..Len(trace') : batch'[j].execId = x /\ trace'[j].o \in Outcomes
       /\ hstate' = "returned" => Len(trace') = Len(batch')
       /\ hstate' = "abandoned" =>
            trace'[Len(trace')].dup /\ fill(batch'[Len(trace')])
       /\ (turn /\ fill(turn_evt) /\ turn_evt.execId \notin execid_seen) =>
            /\ turn_o \in Outcomes
            /\ execid_seen' \in trim_exec_cache(execid_seen \cup {turn_evt.execId})]_vars

\* an execId left behind by an earlier call has been admitted by this one
C18_Witness ==
    /\ Len(trace) >= 1
    /\ batch[Len(trace)].execId \in left
    /\ batch[Len(trace)].execId \notin seen0
    /\ trace[Len(trace)].o \in Outcomes
    /\ batch[Len(trace)].execId \in execid_seen

----------------------------------------------------------------------------
(* on_execution_message run by two threads at once.  The code takes no     *)
(* lock, so the threads interleave between the steps of the loop body:     *)
(* the membership test (line 411), execid_seen.add (414), the length test  *)
(* and the reading list(execid_seen)[-EXECID_CACHE_MAX:] of                *)
(* trim_exec_cache (389-391), the store of the rebuilt set into the global *)
(* (391), and the try block (417-422).  threads[t] holds the locals of     *)
(* thread t: its batch, the position i in it, its place pc in the loop     *)
(* body, and in trim_exec_cache the set read (src) and the set built from  *)
(* it (tmp).  dispatched is the history: how often tg_send_message was     *)
(* called per execId, the ids of the threads' events that a rebuild        *)
(* dropped from the set it had read,                                       *)
(* and the ids a store removed although the storing thread had not read    *)
(* them (added by the other thread between the read and the store).        *)

Threads == {1, 2}

\* the execIds of the two threads' events: none was ever in execid_seen
ThreadIds == {"c", "d"}

\* the threads' events carry no category, so that build_message makes no
\* lookup and the caches stay out of the race
ThreadEvents == [execType : {"Trade"}, execId : ThreadIds,
                 orderId : {"1"}, category : {""}, symbol : {"BTCUSDT"}]

ThreadBatches == SeqsUpTo(ThreadEvents, MaxBatch) \ {<<>>}

\* execid_seen when the two calls begin: empty, or full of other ids
ThreadSeen == {{}, {"a", "b"}}

InitThreads ==
    /\ now = 0
    /\ target = "order"
    /\ order_cache = <<>>
    /\ position_cache = <<>>
    /\ op = NoOp
    /\ order_puts = <<>>
    /\ position_puts = <<>>
    /\ execid_seen \in ThreadSeen
    /\ hstate = "idle"
    /\ batch = <<>>
    /\ trace = <<>>
    /\ seen0 = {}
    /\ left = {}
    /\ threads \in [Threads -> {[pc |-> "examine", batch |-> b, i |-> 1, src |-> {}, tmp |-> {}] :
                                   b \in ThreadBatches}]
    /\ dispatched = [sent |-> [x \in ThreadIds |-> 0], evicted |-> {}, raced |-> {}]

\* the thread goes on to the next event of its batch, or returns
next_event(th) ==
    IF th.i = Len(th.batch) THEN [th EXCEPT !.pc = "done"]
    ELSE [th EXCEPT !.pc = "examine", !.i = th.i + 1]

\* lines 403-412: the filters and the membership test
ThreadExamine(t) ==
    /\ threads[t].pc = "examine"
    /\ LET th == threads[t]
           e == examine(th.batch[th.i], execid_seen) IN
       threads' = [threads EXCEPT ![t] =
                      IF e = "admit" THEN [th EXCEPT !.pc = "add"]
                      ELSE IF e = "return" THEN [th EXCEPT !.pc = "done"]
                      ELSE next_event(th)]
    /\ UNCHANGED <<rest_vars, execid_seen, hstate, batch, trace, seen0, left, dispatched>>

\* line 414: execid_seen.add(exec_id)
ThreadAdd(t) ==
    /\ threads[t].pc = "add"
    /\ execid_seen' = execid_seen \cup {threads[t].batch[threads[t].i].execId}
    /\ threads' = [threads EXCEPT ![t].pc = "trim"]
    /\ UNCHANGED <<rest_vars, hstate, batch, trace, seen0, left, dispatched>>

\* lines 389-391: the length test, and the set built from the global as read
ThreadTrim(t) ==
    /\ threads[t].pc = "trim"
    /\ IF Cardinality(execid_seen) <= EXECID_CACHE_MAX
       THEN threads' = [threads EXCEPT ![t].pc = "try"]
       ELSE \E kept \in trim_exec_cache(execid_seen) :
              threads' = [threads EXCEPT ![t].pc = "store", ![t].src = execid_seen,
                                         ![t].tmp = kept]
    /\ UNCHANGED <<rest_vars, execid_seen, hstate, batch, trace, seen0, left, dispatched>>

\* line 391: the rebuilt set is stored into the global
ThreadStore(t) ==
    /\ threads[t].pc = "store"
    /\ execid_seen' = threads[t].tmp
    /\ dispatched' = [dispatched EXCEPT
                        !.evicted = @ \cup ((threads[t].src \ threads[t].tmp) \cap ThreadIds),
                        !.raced = @ \cup (execid_seen \ threads[t].src)]
    /\ threads' = [threads EXCEPT ![t].pc = "try", ![t].src = {}, ![t].tmp = {}]
    /\ UNCHANGED <<rest_vars, hstate, batch, trace, seen0, left>>

\* lines 417-422: the try block, with the lookups of build_message
ThreadTry(t) ==
    /\ threads[t].pc = "try"
    /\ LET th == threads[t]
           evt == th.batch[th.i] IN
       \E outcome \in Outcomes :
         /\ threads' = [threads EXCEPT ![t] =
                           IF on_exception(outcome) = "raise" THEN [th EXCEPT !.pc = "done"]
                           ELSE next_event(th)]
         /\ dispatched' = IF outcome = "build_failed" THEN dispatched
                          ELSE [dispatched EXCEPT !.sent[evt.execId] = @ + 1]
         /\ IF outcome = "build_failed"
            THEN UNCHANGED <<order_cache, position_cache, order_puts, position_puts>>
            ELSE \E r1 \in IF order_query_needed(evt.category, evt.orderId)
                           THEN HandlerFiltered ELSE {Raises} :
                 \E r3 \in IF position_query_needed(evt.category, evt.symbol)
                           THEN HandlerPositions ELSE {Raises} :
                   LET b == build_message(evt, order_cache, position_cache, now,
                                          r1, Raises, r3) IN
                   /\ order_cache' = b.order.cache
                   /\ position_cache' = b.position.cache
                   /\ order_puts' = puts_after(order_puts,
                          IF b.order.put = None THEN None
                          ELSE Put(evt.orderId, b.order.put[1], now), b.order.cache)
                   /\ position_puts' = puts_after(position_puts,
                          IF b.position.put = None THEN None
                          ELSE Put(<<lower(evt.category), evt.symbol>>,
                                   b.position.put[1], now), b.position.cache)
    /\ UNCHANGED <<now, op, target, execid_seen, hstate, batch, trace, seen0, left>>

NextThreads ==
    \E t \in Threads :
       \/ ThreadExamine(t)
       \/ ThreadAdd(t)
       \/ ThreadTrim(t)
       \/ ThreadStore(t)
       \/ ThreadTry(t)

SpecThreads == InitThreads /\ [][NextThreads]_vars

\* execId x is in the batches of both threads
in_both(x) ==
    \A t \in Threads : \E j \in 1..Len(threads[t].batch) : threads[t].batch[j].execId = x

(* C16 as stated: with two threads in on_execution_message whose batches   *)
(* both hold an execId that was never in execid_seen, the membership test, *)
(* the insertion and the rebuild of trim_exec_cache behave atomically:     *)
(* tg_send_message is called at most once for that execId (unless a        *)
(* rebuild dropped the id from the set it had read, as a single thread can *)
(* too), and no store of a rebuilt set removes an id the other thread      *)
(* added after the set was read.                                           *)
C16_AtomicSeen ==
    /\ \A x \in ThreadIds :
         (in_both(x) /\ x \notin dispatched.evicted) => dispatched.sent[x] <= 1
    /\ dispatched.raced = {}

----------------------------------------------------------------------------
(* The two caches driven together: puts and gets on both, interleaved.     *)
(* (One value per cache and two position keys keep the product small.)     *)

InitBoth ==
    /\ now = 0
    /\ target = "both"
    /\ order_cache = <<>>
    /\ position_cache = <<>>
    /\ op = NoOp
    /\ order_puts = <<>>
    /\ position_puts = <<>>
    /\ execid_seen = {}
    /\ hstate = "idle"
    /\ batch = <<>>
    /\ trace = <<>>
    /\ seen0 = {}
    /\ left = {}
    /\ threads = <<>>
    /\ dispatched = <<>>

SpecBoth == InitBoth /\ [][NextCache]_vars

\* every entry carries the clock reading of the last put of its key
stamped_by_puts(cache, puts) ==
    \A i \in 1..Len(cache) : cache[i].ts = last_put(puts, cache[i].k).at

(* C19: a get that hits leaves both caches as they are, the timestamp of   *)
(* the entry included, so that every timestamp is that of the last put of  *)
(* its key and expiry and eviction never depend on reads; a put or a get   *)
(* on the order cache leaves the position cache unchanged, and a put or a  *)
(* get on the position cache leaves the order cache unchanged.             *)
C19_ReadsAndOtherCacheUntouched ==
    [][now' = now =>
         /\ (op'.name \in {"_cache_get", "_position_cache_get"} /\ op'.ret # None) =>
              UNCHANGED <<order_cache, position_cache>>
         /\ op'.name \in {"_cache_get", "_cache_put"} => UNCHANGED position_cache
         /\ op'.name \in {"_position_cache_get", "_position_cache_put"} =>
              UNCHANGED order_cache
         /\ stamped_by_puts(order_cache', order_puts')
         /\ stamped_by_puts(position_cache', position_puts')]_vars

\* a get on the order cache has just hit an entry put at an earlier clock
\* reading, with the position cache holding an entry: the timestamp is still
\* that of the put
C19_Witness ==
    /\ op.name = "_cache_get"
    /\ op.ret # None
    /\ dict_item(order_cache, op.key).ts < op.t
    /\ position_cache # <<>>

====
